---- MODULE Spec2Model ----
(***************************************************************************)
(* Multipart upload of iharbor-s3: the Upload row (a status flag used as   *)
(* an advisory lock), the per-bucket Part rows, the part bytes and the     *)
(* destination object, driven by completion, abort and part-upload         *)
(* requests that are served concurrently by independent workers.           *)
(*                                                                         *)
(* Sizes and offsets are counted in read chunks: a part of size 2 is read  *)
(* back as two chunks.  A digest is modelled by the sequence it was fed    *)
(* (an injective abstraction of MD5).                                      *)
(***************************************************************************)
EXTENDS Integers, Sequences, FiniteSets, TLC

\* ------------------------------------------------------------- bounds
MaxPart == 2
\* longest completion manifest a client sends
MaxManifest == 2
\* workers serving requests at the same time
MaxInFlight == 2
\* requests issued in one behaviour
MaxRequests == 2
\* store operations hit by a failure (in their first attempt or in both) in one
\* behaviour
MaxFailures == 2
\* rows of the uploads table
MaxUpload == 2
\* buckets ever created, numbered by their id
MaxBucket == 3

\* ------------------------------------------------------------- program constants
STATUS_UPLOADING == 1
STATUS_COMPOSING == 2
STATUS_COMPLETED == 3
\* the Upload row does not exist (never created, or deleted)
NoUpload == 0
\* S3_MULTIPART_UPLOAD_MIN_SIZE, in chunks
MULTIPART_UPLOAD_MIN_SIZE == 2
\* obj_perms_code recorded on the Upload when it was initiated
UploadPermsCode == 1
\* id of the destination object's metadata row
ObjId == 7

PartNums == 1..MaxPart
Slots == 1..MaxInFlight

\* ------------------------------------------------------------- part contents
\* What a client can send as one part: "d1" is one chunk long (below the
\* minimum part size), "d2" two chunks.
Data == {"d1", "d2"}
NoData == "none"

Chunks(d) == IF d = "d1" THEN <<"x">> ELSE IF d = "d2" THEN <<"y", "z">> ELSE <<>>

DataSize(d) == Len(Chunks(d))

\* FileMD5Handler.hex_md5 of the streamed bytes
DataMd5(d) == IF d = "d1" THEN "m1" ELSE IF d = "d2" THEN "m2" ELSE ""

Md5s == {DataMd5(d) : d \in Data}

\* ------------------------------------------------------------- rows
NoEtag == [digest |-> <<>>, count |-> 0]

NoRow == [id |-> 0, size |-> 0, part_md5 |-> "", obj_id |-> 0, obj_offset |-> -1,
          obj_etag |-> NoEtag, parts_count |-> 0]

NewRow(i, d) == [NoRow EXCEPT !.id = i, !.size = DataSize(d), !.part_md5 = DataMd5(d)]

NoObj == [exists |-> FALSE, si |-> 0, md5 |-> <<>>, share |-> 0]

\* ------------------------------------------------------------- manifests
NoETagKey == "missing"

ManifestEntries == [PartNumber : 0..MaxPart, ETag : Md5s \cup {NoETagKey}]

RECURSIVE SeqsUpTo(_, _)
SeqsUpTo(S, n) ==
    IF n = 0 THEN {<<>>}
    ELSE LET shorter == SeqsUpTo(S, n - 1)
         IN  shorter \cup {Append(q, e) : q \in {t \in shorter : Len(t) = n - 1}, e \in S}

Manifests == SeqsUpTo(ManifestEntries, MaxManifest)

Numbers(m) == [i \in 1..Len(m) |-> m[i].PartNumber]

InSeq(x, q) == \E i \in 1..Len(q) : q[i] = x

\* the manifest entry of part number n (the last one wins, as in the OrderedDict)
EntryOf(m, n) == m[CHOOSE i \in 1..Len(m) : m[i].PartNumber = n /\ \A j \in (i+1)..Len(m) : m[j].PartNumber # n]

RECURSIVE ValidateFrom(_, _, _)
ValidateFrom(m, i, pre_num) ==
    IF i > Len(m) THEN "ok"
    ELSE IF m[i].ETag = NoETagKey THEN "MalformedXML"
    ELSE IF ~(1 <= m[i].PartNumber /\ m[i].PartNumber <= MaxPart) THEN "InvalidPart"
    ELSE IF m[i].PartNumber <= pre_num THEN "InvalidPartOrder"
    ELSE ValidateFrom(m, i + 1, m[i].PartNumber)

\* the loop of handle_validate_complete_parts without the look at its first entry
handle_validate_skip_first(m) ==
    IF Len(m) = 0 THEN "MalformedXML" ELSE ValidateFrom(m, 2, m[1].PartNumber)

\* ObjViewSet.complete_multipart_upload, up to handle_validate_complete_parts
handle_validate_complete_parts(m) ==
    IF Len(m) = 0 THEN "MalformedXML" ELSE ValidateFrom(m, 1, 0)

\* ------------------------------------------------------------- part validation
\* rows: the Part rows of the upload as [num, row] in the order the store
\* returned them.
RECURSIVE ValidateRows(_, _, _, _)
ValidateRows(rows, i, m, acc) ==
    IF i > Len(rows) THEN acc
    ELSE LET num == rows[i].num
             part == rows[i].row
             nums == Numbers(m)
         IN  IF InSeq(num, nums)
             THEN IF part.size < MULTIPART_UPLOAD_MIN_SIZE /\ num # nums[Len(nums)]
                  THEN [acc EXCEPT !.err = "EntityTooSmall"]
                  ELSE IF EntryOf(m, num).ETag # part.part_md5
                  THEN [acc EXCEPT !.err = "InvalidPart"]
                  ELSE ValidateRows(rows, i + 1, m,
                         [acc EXCEPT !.digest = Append(@, part.part_md5),
                                     !.used = [@ EXCEPT ![num] = part]])
             ELSE ValidateRows(rows, i + 1, m,
                         [acc EXCEPT !.unused = Append(@, rows[i])])

\* a validation that holds the last part of the manifest to the minimum size too
get_upload_parts_every_size(rows, m) ==
    LET r == ValidateRows(rows, 1, m,
                 [err |-> "ok", digest |-> <<>>, used |-> [n \in PartNums |-> NoRow],
                  unused |-> <<>>])
        count == Cardinality({n \in PartNums : r.used[n] # NoRow})
        small == \E i \in 1..Len(rows) : /\ InSeq(rows[i].num, Numbers(m))
                                          /\ rows[i].row.size < MULTIPART_UPLOAD_MIN_SIZE
        err == IF r.err # "ok" THEN r.err
               ELSE IF small THEN "EntityTooSmall"
               ELSE IF count # Cardinality({m[i].PartNumber : i \in 1..Len(m)})
               THEN "InvalidPart" ELSE "ok"
    IN  [err |-> err, used |-> r.used, unused |-> r.unused,
         etag |-> IF err = "ok" THEN [digest |-> r.digest, count |-> count] ELSE NoEtag]

get_upload_parts_and_validate(rows, m) ==
    LET r == ValidateRows(rows, 1, m,
                 [err |-> "ok", digest |-> <<>>, used |-> [n \in PartNums |-> NoRow],
                  unused |-> <<>>])
        count == Cardinality({n \in PartNums : r.used[n] # NoRow})
        err == IF r.err # "ok" THEN r.err
               ELSE IF count # Cardinality({m[i].PartNumber : i \in 1..Len(m)})
               THEN "InvalidPart" ELSE "ok"
    IN  [err |-> err, used |-> r.used, unused |-> r.unused,
         etag |-> IF err = "ok" THEN [digest |-> r.digest, count |-> count] ELSE NoEtag]

\* ------------------------------------------------------------- state
VARIABLES
    impl,       \* "view": ObjViewSet serves the requests; "handler": MultipartUploadHandler
    upStatus,   \* status column of the Upload row, NoUpload when the row is gone
    parts,      \* Part rows of the upload, by part number
    pbytes,     \* byte store: what lies under the key part_{upload_id}_{n}
    nextId,     \* next primary key of the parts table
    obj,        \* metadata row of the destination object
    objBytes,   \* byte store: the destination object, chunk by chunk
    rq,         \* per worker: the request it serves, its locals and its response
    nreq,       \* requests issued so far
    nfail,      \* store failures so far
    uploads,    \* the uploads table as the lookup by (bucket, key) sees it, by primary key
    lk,         \* the lookup by (bucket, key): its arguments, locals and result
    ini,        \* per worker: the initiate request it serves against the uploads table
    ptab,       \* the Part rows of one upload as a table: a set of rows
    pup,        \* per worker: the part upload it serves against that table
    utab,       \* the uploads of a bucket, by primary key: status and object key
    otab,       \* the parts table of that bucket: the Part rows of all its uploads
    okeys,      \* byte store: the part keys under which bytes lie, as (upload id, part number)
    job         \* the operation that runs against these tables, and its locals

partsTable == <<ptab, pup>>

bucketParts == <<utab, otab, okeys, job>>

lookup == <<uploads, lk, ini, partsTable, bucketParts>>

vars == <<impl, upStatus, parts, pbytes, nextId, obj, objBytes, rq, nreq, nfail, lookup>>

UploadIds == 1..MaxUpload
BucketIds == 1..MaxBucket
Keys == {"k1", "k2"}

\* a bucket that is deleted and created again keeps its name and gets a new
\* id: the buckets with odd ids are the incarnations of "a", the others of
\* "b", and the last incarnation of a name is the live one
BucketName(i) == IF i % 2 = 1 THEN "a" ELSE "b"

Bucket(i) == [id |-> i, name |-> BucketName(i)]

LiveBuckets == {Bucket(i) : i \in {j \in BucketIds : j + 2 > MaxBucket}}

NoBucket == [id |-> 0, name |-> ""]

\* no row under this primary key
NoUploadRow == [bucket_id |-> 0, bucket_name |-> "", obj_key |-> ""]

\* MultipartUpload rows: created for a bucket that existed then
UploadRows == [bucket_id : BucketIds, bucket_name : {"a", "b"}, obj_key : Keys]

IdlePartUpload == [pc |-> "idle", num |-> 0, data |-> NoData, part |-> 0, resp |-> "none"]

IdleInitiate ==
    [pc |-> "idle", bucket |-> NoBucket, obj_key |-> "", upload |-> NoUpload, resp |-> "none"]

IdleLookup ==
    [pc |-> "idle", bucket |-> NoBucket, obj_path |-> "",
     qs |-> [u \in UploadIds |-> NoUploadRow], todo |-> {}, valid_uploads |-> <<>>,
     ret |-> NoUpload, err |-> "none"]

IdleJob ==
    [pc |-> "idle", upload |-> NoUpload, nums |-> <<>>, k |-> 1, failed |-> 0, stuck |-> {}]

\* the tables of the bucket are not in use
NoBucketParts ==
    /\ utab = [u \in UploadIds |-> [status |-> NoUpload, obj_key |-> ""]]
    /\ otab = {}
    /\ okeys = {}
    /\ job = IdleJob

NoPre == [up |-> NoUpload, parts |-> [n \in PartNums |-> NoRow],
          pbytes |-> [n \in PartNums |-> NoData], obj |-> NoObj, objBytes |-> <<>>]

IdleReq ==
    [pc |-> "idle", kind |-> "none", resp |-> "none", err |-> "none", at |-> "none",
     status |-> NoUpload, manifest |-> <<>>, shape_ok |-> TRUE, created |-> FALSE, objsi |-> 0,
     used |-> [n \in PartNums |-> NoRow], unused |-> <<>>, etag |-> NoEtag,
     k |-> 1, c |-> 1, offset |-> 0, woff |-> 0, md5 |-> <<>>, attempts |-> 0, wfails |-> 0,
     plist |-> <<>>, failed |-> <<>>, pass |-> 1, num |-> 0, data |-> NoData, sha_ok |-> TRUE,
     gated |-> FALSE, finalized |-> FALSE, revert |-> "none", ndel |-> 0, pre |-> NoPre]

\* the request ends: the response is sent and the locals are dropped; what
\* stays is the record of what the request did
Finish(r, resp) ==
    [IdleReq EXCEPT !.pc = "done", !.kind = r.kind, !.resp = resp, !.at = r.at,
                    !.shape_ok = r.shape_ok, !.attempts = r.attempts, !.wfails = r.wfails,
                    !.gated = r.gated, !.revert = r.revert]

\* the request fails at step `at` with error `err`: its caller's except clause is next
Raise(r, at, err) == [r EXCEPT !.pc = "revert", !.at = at, !.err = err]

\* The parts a client uploaded before the requests of this behaviour, every
\* one with the bytes and the row of one upload_part: a large part 1, alone or
\* followed by a part 2 of either size, and a small part 1 before a large
\* part 2.  The other contents come about by the part uploads of the behaviour.
InitParts ==
    {f \in [PartNums -> Data \cup {NoData}] :
        /\ f[1] # NoData
        /\ \A n \in PartNums : n > 2 => f[n] = NoData
        /\ f[1] = "d1" => f[2] = "d2"}

RowIdOf(f, n) == Cardinality({i \in 1..n : f[i] # NoData})

Init ==
    /\ impl \in {"view", "handler"}
    /\ upStatus = STATUS_UPLOADING
    /\ pbytes \in InitParts
    /\ parts = [n \in PartNums |-> IF pbytes[n] = NoData THEN NoRow
                                   ELSE NewRow(RowIdOf(pbytes, n), pbytes[n])]
    /\ nextId = Cardinality({n \in PartNums : pbytes[n] # NoData}) + 1
    /\ \/ obj = NoObj /\ objBytes = <<>>
       \/ obj = [exists |-> TRUE, si |-> 1, md5 |-> <<"o">>, share |-> 0] /\ objBytes = <<"o">>
    /\ rq = [s \in Slots |-> IdleReq]
    /\ nreq = 0
    /\ nfail = 0
    /\ uploads = [u \in UploadIds |-> NoUploadRow]
    /\ lk = IdleLookup
    /\ ini = [s \in Slots |-> IdleInitiate]
    /\ ptab = {}
    /\ pup = [s \in Slots |-> IdlePartUpload]
    /\ NoBucketParts

\* what the stores hold, as a request finds them when it arrives
Now == [up |-> upStatus, parts |-> parts, pbytes |-> pbytes, obj |-> obj, objBytes |-> objBytes]

\* a request is taken by the first worker that serves none
Serving(s) == rq[s].pc \notin {"idle", "done"}

Free(s) == ~Serving(s) /\ nreq < MaxRequests /\ \A t \in 1..(s - 1) : Serving(t)

At(s, kind, pc) == rq[s].kind = kind /\ rq[s].pc = pc

Set(s, r) == rq' = [rq EXCEPT ![s] = r]

\* n store operations fail now
Fail(n) == nfail + n <= MaxFailures /\ nfail' = nfail + n

\* an operation of which f attempts fail
Cost(f) == IF f > 0 THEN 1 ELSE 0

\* ------------------------------------------------------------- completion
\* rados write of one chunk at a chunk offset
WriteAt(b, off, x) ==
    [i \in 1..(IF Len(b) > off + 1 THEN Len(b) ELSE off + 1) |->
        IF i = off + 1 THEN x ELSE IF i <= Len(b) THEN b[i] ELSE "hole"]

\* the orders in which the store can return the rows of the present parts
Present == {n \in PartNums : parts[n] # NoRow}

StoreOrders ==
    {p \in [1..Cardinality(Present) -> Present] : \A i, j \in DOMAIN p : i # j => p[i] # p[j]}

RowsIn(p) == [i \in DOMAIN p |-> [num |-> p[i], row |-> parts[p[i]]]]

\* complete_multipart_upload: the manifest is checked, the Upload row is
\* loaded and its status, as loaded, is looked at
CompleteStart(s) ==
    /\ Free(s)
    /\ \E m \in Manifests :
         LET v == handle_validate_complete_parts(m)
             r == [IdleReq EXCEPT !.kind = "complete", !.manifest = m, !.pre = Now]
             l == [r EXCEPT !.status = upStatus]
         IN  Set(s, IF v # "ok" THEN Finish([r EXCEPT !.shape_ok = FALSE], v)
                    ELSE IF upStatus = NoUpload THEN Finish(r, "NoSuchUpload")
                    ELSE IF upStatus = STATUS_COMPLETED THEN [l EXCEPT !.pc = "del_completed"]
                    ELSE IF upStatus = STATUS_COMPOSING
                         THEN Finish(l, "CompletionAlreadyInProgress")
                    ELSE [l EXCEPT !.pc = "gate"])
    /\ nreq' = nreq + 1
    /\ UNCHANGED <<lookup, impl, upStatus, parts, pbytes, nextId, obj, objBytes, nfail>>

\* is_completed(): safe_delete() and NoSuchUpload
CompleteDelCompleted(s) ==
    /\ At(s, "complete", "del_completed")
    /\ \E f \in 0..1 :
         /\ Fail(f)
         /\ upStatus' = IF f = 0 THEN NoUpload ELSE upStatus
    /\ Set(s, Finish([rq[s] EXCEPT !.at = "completed"], "NoSuchUpload"))
    /\ UNCHANGED <<lookup, impl, parts, pbytes, nextId, obj, objBytes, nreq>>

\* MultipartUpload.set_composing on the loaded instance: an UPDATE of the
\* status column by primary key, whatever the stored status is by now
set_composing(s) ==
    \/ /\ upStatus # NoUpload
       /\ Fail(0)
       /\ upStatus' = STATUS_COMPOSING
       /\ Set(s, [rq[s] EXCEPT !.pc = "getobj", !.status = STATUS_COMPOSING, !.gated = TRUE])
    \/ /\ IF upStatus = NoUpload THEN Fail(0) ELSE Fail(1)
       /\ upStatus' = upStatus
       /\ Set(s, Finish(rq[s], "InternalError"))

CompleteGate(s) ==
    /\ At(s, "complete", "gate")
    /\ set_composing(s)
    /\ UNCHANGED <<lookup, impl, parts, pbytes, nextId, obj, objBytes, nreq>>

\* HarborManager.get_or_create_obj
CompleteGetObj(s) ==
    /\ At(s, "complete", "getobj")
    /\ IF obj.exists
       THEN /\ obj' = obj
            /\ Set(s, [rq[s] EXCEPT !.created = FALSE, !.objsi = obj.si,
                                    !.pc = IF obj.si # 0 THEN "reset" ELSE "validate"])
       ELSE /\ obj' = [NoObj EXCEPT !.exists = TRUE]
            /\ Set(s, [rq[s] EXCEPT !.created = TRUE, !.objsi = 0, !.pc = "validate"])
    /\ UNCHANGED <<lookup, impl, upStatus, parts, pbytes, nextId, objBytes, nreq, nfail>>

\* HarborManager._pre_reset_upload: the stored bytes of the object are dropped
pre_reset_upload == objBytes' = <<>>

\* the view raises S3InvalidRequest into its caller's handler; the streaming
\* handler answers at once
CompleteReset(s) ==
    /\ At(s, "complete", "reset")
    /\ \/ /\ Fail(0)
          /\ pre_reset_upload
          /\ Set(s, [rq[s] EXCEPT !.pc = "validate"])
       \/ /\ Fail(1)
          /\ objBytes' = objBytes
          /\ Set(s, IF impl = "view"
                    THEN Raise(rq[s], "reset", "InvalidRequest")
                    ELSE Finish([rq[s] EXCEPT !.at = "reset"], "InvalidRequest"))
    /\ UNCHANGED <<lookup, impl, upStatus, parts, pbytes, nextId, obj, nreq>>

CompleteValidate(s) ==
    /\ At(s, "complete", "validate")
    /\ \E p \in StoreOrders :
         LET v == get_upload_parts_and_validate(RowsIn(p), rq[s].manifest)
         IN  Set(s, IF v.err # "ok"
                    THEN Raise(rq[s], "validate", v.err)
                    ELSE [rq[s] EXCEPT !.pc = "compose", !.used = v.used, !.unused = v.unused,
                                       !.etag = v.etag, !.k = 1, !.c = 1, !.offset = 0,
                                       !.woff = 0, !.md5 = <<>>])
    /\ UNCHANGED <<lookup, impl, upStatus, parts, pbytes, nextId, obj, objBytes, nreq, nfail>>

\* the chunk the part's generator yields next: it reads what lies under the
\* part's key now, up to the size the loaded row states
NextChunk(num, size, c) ==
    IF c <= size /\ c <= Len(Chunks(pbytes[num])) THEN Chunks(pbytes[num])[c] ELSE ""

\* a chunk write that is never tried again
WriteAttemptsNoRetry(f) == 1

\* attempts of one chunk write: one, and one more after a failure
WriteAttempts(f) == IF f = 0 THEN 1 ELSE 2

\* save_part_to_object, one round of its loop
CompleteWrite(s) ==
    /\ At(s, "complete", "compose")
    /\ LET r == rq[s]
           num == Numbers(r.manifest)[r.k]
           part == r.used[num]
           data == NextChunk(num, part.size, r.c)
       IN  IF data = ""
           THEN /\ Fail(0)
                /\ objBytes' = objBytes
                /\ Set(s, [r EXCEPT !.pc = "savepart"])
           ELSE \E f \in 0..2 :
                  /\ Fail(Cost(f))
                  /\ IF WriteAttempts(f) > f
                     THEN /\ objBytes' = WriteAt(objBytes, r.woff, data)
                          /\ Set(s, [r EXCEPT !.md5 = Append(@, data), !.woff = @ + 1,
                                              !.c = @ + 1, !.attempts = WriteAttempts(f),
                                              !.wfails = f,
                                              !.pc = IF r.c >= part.size THEN "savepart"
                                                     ELSE "compose"])
                     ELSE /\ objBytes' = objBytes
                          /\ Set(s, Raise([r EXCEPT !.attempts = WriteAttempts(f), !.wfails = f],
                                          "write", "InternalError"))
    /\ UNCHANGED <<lookup, impl, upStatus, parts, pbytes, nextId, obj, nreq>>

\* save_part_to_object: part.save(update_fields=[obj_offset, obj_etag, obj_id,
\* parts_count]), an UPDATE by primary key that fails when the row is gone
CompleteSavePart(s) ==
    /\ At(s, "complete", "savepart")
    /\ LET r == rq[s]
           nums == Numbers(r.manifest)
           num == nums[r.k]
           part == r.used[num]
       IN  \/ /\ parts[num].id = part.id
              /\ Fail(0)
              /\ parts' = [parts EXCEPT ![num] =
                              [@ EXCEPT !.obj_offset = r.offset, !.obj_etag = r.etag,
                                        !.obj_id = ObjId, !.parts_count = Len(nums)]]
              /\ Set(s, [r EXCEPT !.offset = @ + part.size, !.woff = r.offset + part.size,
                                  !.k = @ + 1, !.c = 1,
                                  !.pc = IF r.k = Len(nums) THEN "finalize" ELSE "compose"])
           \/ /\ IF parts[num].id = part.id THEN Fail(1) ELSE Fail(0)
              /\ parts' = parts
              /\ Set(s, Raise(r, "savepart", "InternalError"))
    /\ UNCHANGED <<lookup, impl, upStatus, pbytes, nextId, obj, objBytes, nreq>>

\* update_obj_metedata
CompleteFinalize(s) ==
    /\ At(s, "complete", "finalize")
    /\ LET r == rq[s]
       IN  \/ /\ Fail(0)
              /\ obj' = [obj EXCEPT !.si = r.offset, !.md5 = r.md5, !.share = UploadPermsCode]
              /\ Set(s, [r EXCEPT !.finalized = TRUE, !.k = 1,
                                  !.pc = IF Len(r.unused) > 0 THEN "clear_unused"
                                         ELSE "clear_used"])
           \/ /\ Fail(1)
              /\ obj' = obj
              /\ Set(s, Raise(r, "finalize", "InternalError"))
    /\ UNCHANGED <<lookup, impl, upStatus, parts, pbytes, nextId, objBytes, nreq>>

\* ------------------------------------------------------------- reclaiming parts
\* clear_parts_cache, one round of its loop on the loaded part p: with
\* is_rm_metadata the row is deleted by primary key (fr attempts fail), then
\* the bytes under the part's key are deleted (fb attempts fail); each is
\* tried twice
RowAfterClear(p, is_rm_metadata, fr) ==
    IF is_rm_metadata /\ fr < 2 /\ parts[p.num].id = p.row.id
    THEN [parts EXCEPT ![p.num] = NoRow] ELSE parts

BytesAfterClear(p, fb) == IF fb < 2 THEN [pbytes EXCEPT ![p.num] = NoData] ELSE pbytes

\* what the round reclaimed: rows and byte strings that were there
Reclaimed(p, is_rm_metadata, fr, fb) ==
    (IF RowAfterClear(p, is_rm_metadata, fr) # parts THEN 1 ELSE 0)
    + (IF BytesAfterClear(p, fb) # pbytes THEN 1 ELSE 0)

\* clear_parts_cache(unused_upload_parts, is_rm_metadata=True)
CompleteClearUnused(s) ==
    /\ At(s, "complete", "clear_unused")
    /\ LET r == rq[s]
           p == r.unused[r.k]
       IN  \E fr \in 0..2, fb \in 0..2 :
             /\ Fail(Cost(fr) + Cost(fb))
             /\ parts' = RowAfterClear(p, TRUE, fr)
             /\ pbytes' = BytesAfterClear(p, fb)
             /\ Set(s, [r EXCEPT !.ndel = @ + Reclaimed(p, TRUE, fr, fb),
                                 !.k = IF r.k = Len(r.unused) THEN 1 ELSE r.k + 1,
                                 !.pc = IF r.k = Len(r.unused) THEN "clear_used"
                                        ELSE "clear_unused"])
    /\ UNCHANGED <<lookup, impl, upStatus, nextId, obj, objBytes, nreq>>

\* clear_parts_cache(used_upload_parts, is_rm_metadata=False) with a failed
\* deletion raised into the caller's except clause
CompleteClearUsedFatal(s) ==
    /\ At(s, "complete", "clear_used")
    /\ LET r == rq[s]
           nums == Numbers(r.manifest)
           p == [num |-> nums[r.k], row |-> r.used[nums[r.k]]]
       IN  \E fb \in 0..2 :
             /\ Fail(Cost(fb))
             /\ parts' = RowAfterClear(p, FALSE, 0)
             /\ pbytes' = BytesAfterClear(p, fb)
             /\ Set(s, IF fb = 2 THEN Raise(r, "clear", "InternalError")
                       ELSE [r EXCEPT !.ndel = @ + Reclaimed(p, FALSE, 0, fb),
                                      !.k = @ + 1,
                                      !.pc = IF r.k = Len(nums) THEN "del_upload"
                                             ELSE "clear_used"])
    /\ UNCHANGED <<lookup, impl, upStatus, nextId, obj, objBytes, nreq>>

\* clear_parts_cache(used_upload_parts, is_rm_metadata=False)
CompleteClearUsed(s) ==
    /\ At(s, "complete", "clear_used")
    /\ LET r == rq[s]
           nums == Numbers(r.manifest)
           p == [num |-> nums[r.k], row |-> r.used[nums[r.k]]]
       IN  \E fb \in 0..2 :
             /\ Fail(Cost(fb))
             /\ parts' = RowAfterClear(p, FALSE, 0)
             /\ pbytes' = BytesAfterClear(p, fb)
             /\ Set(s, [r EXCEPT !.ndel = @ + Reclaimed(p, FALSE, 0, fb),
                                 !.k = @ + 1,
                                 !.pc = IF r.k = Len(nums) THEN "del_upload" ELSE "clear_used"])
    /\ UNCHANGED <<lookup, impl, upStatus, nextId, obj, objBytes, nreq>>

\* the end of complete_multipart_upload_handle: safe_delete(), once more
\* after a failure, then set_completed(); the success response follows
StatusAfterDelete(f) ==
    IF f < 2 THEN NoUpload
    ELSE IF f = 2 /\ upStatus # NoUpload THEN STATUS_COMPLETED
    ELSE upStatus

CompleteDeleteUpload(s) ==
    /\ At(s, "complete", "del_upload")
    /\ \E f \in 0..3 :
         /\ Fail(Cost(f) + (IF f = 3 THEN 1 ELSE 0))
         /\ upStatus' = StatusAfterDelete(f)
    /\ Set(s, Finish(rq[s], "OK"))
    /\ UNCHANGED <<lookup, impl, parts, pbytes, nextId, obj, objBytes, nreq>>

\* MultipartUpload.set_uploading on the instance that was set to Composing
\* (an UPDATE by primary key: it fails when the row is gone)
Written(f) == f = 0 /\ upStatus # NoUpload

set_uploading(f) == IF Written(f) THEN STATUS_UPLOADING ELSE upStatus

\* except S3Error / Exception: set_uploading() and the error response
CompleteRevert(s) ==
    /\ At(s, "complete", "revert")
    /\ \E f \in 0..1 :
         /\ Fail(f)
         /\ upStatus' = set_uploading(f)
         /\ Set(s, Finish([rq[s] EXCEPT !.revert = IF Written(f) THEN "ok" ELSE "failed"],
                          rq[s].err))
    /\ UNCHANGED <<lookup, impl, parts, pbytes, nextId, obj, objBytes, nreq>>

\* ------------------------------------------------------------- abort
\* abort_multipart_upload: the Upload row is loaded and its status looked at
AbortStart(s) ==
    /\ Free(s)
    /\ LET r == [IdleReq EXCEPT !.kind = "abort"]
           l == [r EXCEPT !.status = upStatus]
       IN  Set(s, IF upStatus = NoUpload THEN Finish(r, "NoSuchUpload")
                  ELSE IF upStatus = STATUS_COMPOSING
                       THEN Finish(l, "CompletionAlreadyInProgress")
                  ELSE IF upStatus = STATUS_COMPLETED THEN [l EXCEPT !.pc = "del_completed"]
                  ELSE [l EXCEPT !.pc = "query"])
    /\ nreq' = nreq + 1
    /\ UNCHANGED <<lookup, impl, upStatus, parts, pbytes, nextId, obj, objBytes, nfail>>

\* an abort that answers NoSuchUpload to a Completed upload and leaves its row
AbortKeepCompleted(s) ==
    /\ At(s, "abort", "del_completed")
    /\ Fail(0)
    /\ upStatus' = upStatus
    /\ Set(s, Finish([rq[s] EXCEPT !.at = "completed"], "NoSuchUpload"))
    /\ UNCHANGED <<lookup, impl, parts, pbytes, nextId, obj, objBytes, nreq>>

\* is_completed(): safe_delete() and NoSuchUpload
AbortDelCompleted(s) ==
    /\ At(s, "abort", "del_completed")
    /\ \E f \in 0..1 :
         /\ Fail(f)
         /\ upStatus' = IF f = 0 THEN NoUpload ELSE upStatus
    /\ Set(s, Finish([rq[s] EXCEPT !.at = "completed"], "NoSuchUpload"))
    /\ UNCHANGED <<lookup, impl, parts, pbytes, nextId, obj, objBytes, nreq>>

RECURSIVE RowsFrom(_, _)
RowsFrom(n, S) ==
    IF n > MaxPart THEN <<>>
    ELSE (IF n \in S THEN <<[num |-> n, row |-> parts[n]]>> ELSE <<>>) \o RowsFrom(n + 1, S)

\* ObjectPartManager.get_parts_queryset_by_upload_id_obj_id(upload_id, obj_id=0)
PartsOfUploadNotComposed ==
    RowsFrom(1, {n \in PartNums : parts[n] # NoRow /\ parts[n].obj_id = 0})

\* an abort that takes an upload without listed parts for a failure
AbortQueryNeedsParts(s) ==
    /\ At(s, "abort", "query")
    /\ LET l == PartsOfUploadNotComposed
       IN  Set(s, IF Len(l) = 0 THEN Finish([rq[s] EXCEPT !.at = "noparts"], "InternalError")
                  ELSE [rq[s] EXCEPT !.plist = l, !.k = 1, !.failed = <<>>, !.pass = 1,
                                     !.pc = "clear"])
    /\ UNCHANGED <<lookup, impl, upStatus, parts, pbytes, nextId, obj, objBytes, nreq, nfail>>

AbortQuery(s) ==
    /\ At(s, "abort", "query")
    /\ LET l == PartsOfUploadNotComposed
       IN  Set(s, [rq[s] EXCEPT !.plist = l, !.k = 1, !.failed = <<>>, !.pass = 1,
                                !.at = IF Len(l) = 0 THEN "noparts" ELSE @,
                                !.pc = IF Len(l) = 0 THEN "delete" ELSE "clear"])
    /\ UNCHANGED <<lookup, impl, upStatus, parts, pbytes, nextId, obj, objBytes, nreq, nfail>>

\* an abort that goes over the failed parts once more however many they are
AfterPassViewRetryAll(pass, all, failed) ==
    IF Len(failed) = 0 THEN "delete"
    ELSE IF pass = 1 THEN "clear"
    ELSE "error"

\* what follows a finished pass of clear_parts_cache over `all`, with `failed`
\* the parts whose row was not deleted: "delete", "clear" (a second pass)
\* or "error"
AfterPassView(pass, all, failed) ==
    IF Len(failed) = 0 THEN "delete"
    ELSE IF pass = 1 /\ Len(failed) <= Len(all) \div 2 THEN "clear"
    ELSE "error"

\* MultipartUploadHandler.abort_multipart_upload: after the second pass
\* `elif not failed_parts_2` answers InternalError, and a list that is not
\* empty leaves both loops
AfterPassHandler(pass, all, failed) ==
    IF pass = 1
    THEN IF Len(failed) = 0 THEN "delete"
         ELSE IF Len(failed) > Len(all) \div 2 THEN "error" ELSE "clear"
    ELSE IF Len(failed) = 0 THEN "error" ELSE "delete"

AfterPass(pass, all, failed) ==
    IF impl = "view" THEN AfterPassView(pass, all, failed)
    ELSE AfterPassHandler(pass, all, failed)

\* clear_parts_cache(parts, is_rm_metadata=True), one round of its loop
AbortClear(s) ==
    /\ At(s, "abort", "clear")
    /\ LET r == rq[s]
           p == r.plist[r.k]
       IN  \E fr \in 0..2, fb \in 0..2 :
             /\ Fail(Cost(fr) + Cost(fb))
             /\ parts' = RowAfterClear(p, TRUE, fr)
             /\ pbytes' = BytesAfterClear(p, fb)
             /\ LET failed == IF fr = 2 THEN Append(r.failed, p) ELSE r.failed
                    d == [r EXCEPT !.ndel = @ + Reclaimed(p, TRUE, fr, fb)]
                    next == AfterPass(r.pass, r.plist, failed)
                IN  Set(s, IF r.k < Len(r.plist)
                           THEN [d EXCEPT !.k = @ + 1, !.failed = failed]
                           ELSE IF next = "error" THEN Finish(d, "InternalError")
                           ELSE IF next = "delete" THEN [d EXCEPT !.pc = "delete"]
                           ELSE [d EXCEPT !.plist = failed, !.failed = <<>>, !.k = 1,
                                          !.pass = 2])
    /\ UNCHANGED <<lookup, impl, upStatus, nextId, obj, objBytes, nreq>>

\* upload.safe_delete(): 204, or InternalError
AbortDelete(s) ==
    /\ At(s, "abort", "delete")
    /\ \/ /\ Fail(0)
          /\ upStatus' = NoUpload
          /\ Set(s, Finish(rq[s], "NoContent"))
       \/ /\ Fail(1)
          /\ upStatus' = upStatus
          /\ Set(s, Finish(rq[s], "InternalError"))
    /\ UNCHANGED <<lookup, impl, parts, pbytes, nextId, obj, objBytes, nreq>>

\* ------------------------------------------------------------- initiate
\* create_multipart_upload for the key of the upload: the lookup by (bucket,
\* key) returns the Upload row, and a row found Composing is set back to
\* Uploading at once (the result of set_uploading() is not looked at).  With
\* the row gone the request creates an Upload row of its own, with a new id.
InitiateStart(s) ==
    /\ Free(s)
    /\ LET r == [IdleReq EXCEPT !.kind = "initiate", !.status = upStatus]
       IN  IF upStatus = NoUpload
           THEN /\ Fail(0)
                /\ upStatus' = upStatus
                /\ Set(s, Finish([r EXCEPT !.at = "created"], "OK"))
           ELSE IF upStatus = STATUS_COMPOSING
           THEN \E f \in 0..1 :
                    /\ Fail(f)
                    /\ upStatus' = set_uploading(f)
                    /\ Set(s, [r EXCEPT !.pc = "bind", !.at = "composing"])
           ELSE /\ Fail(0)
                /\ upStatus' = upStatus
                /\ Set(s, [r EXCEPT !.pc = "bind"])
    /\ nreq' = nreq + 1
    /\ UNCHANGED <<lookup, impl, parts, pbytes, nextId, obj, objBytes>>

\* `if upload:` a row found Completed: upload.safr_delete() is no method of
\* MultipartUpload, the AttributeError ends the request; any other row is
\* rebound by update_upload_belong_to_object, an UPDATE by primary key that
\* fails when the row is gone
InitiateBind(s) ==
    /\ At(s, "initiate", "bind")
    /\ upStatus' = upStatus
    /\ IF rq[s].status = STATUS_COMPLETED
       THEN /\ Fail(0)
            /\ Set(s, Finish([rq[s] EXCEPT !.at = "completed"], "InternalError"))
       ELSE \/ /\ upStatus # NoUpload
               /\ Fail(0)
               /\ Set(s, Finish(rq[s], "OK"))
            \/ /\ IF upStatus = NoUpload THEN Fail(0) ELSE Fail(1)
               /\ Set(s, Finish(rq[s], "InternalError"))
    /\ UNCHANGED <<lookup, impl, parts, pbytes, nextId, obj, objBytes, nreq>>

\* ------------------------------------------------------------- part upload
\* upload_part: the Upload row is loaded and is_composing() looked at
UploadStart(s) ==
    /\ Free(s)
    /\ \E n \in PartNums, d \in Data, ok \in BOOLEAN :
         LET r == [IdleReq EXCEPT !.kind = "upload", !.num = n, !.data = d, !.sha_ok = ok]
             l == [r EXCEPT !.status = upStatus]
         IN  Set(s, IF upStatus = NoUpload THEN Finish(r, "NoSuchUpload")
                    ELSE IF upStatus = STATUS_COMPOSING
                         THEN Finish(l, "CompletionAlreadyInProgress")
                    ELSE [l EXCEPT !.pc = "stream"])
    /\ nreq' = nreq + 1
    /\ UNCHANGED <<lookup, impl, upStatus, parts, pbytes, nextId, obj, objBytes, nfail>>

\* request.data: PartUploadToCephHandler streams the body under the part's key
UploadStream(s) ==
    /\ At(s, "upload", "stream")
    /\ LET r == rq[s]
       IN  /\ pbytes' = [pbytes EXCEPT ![r.num] = r.data]
           /\ Set(s, IF r.sha_ok THEN [r EXCEPT !.pc = "save"]
                     ELSE [r EXCEPT !.pc = "clean", !.err = "BadDigest"])
    /\ UNCHANGED <<lookup, impl, upStatus, parts, nextId, obj, objBytes, nreq, nfail>>

\* upload_part_handle_save: the row of (upload_id, part_num) is updated (size
\* and part_md5; obj_id is not among the update_fields) or inserted
UploadSave(s) ==
    /\ At(s, "upload", "save")
    /\ LET r == rq[s]
       IN  \/ /\ Fail(0)
              /\ IF parts[r.num] # NoRow
                 THEN /\ parts' = [parts EXCEPT ![r.num] =
                                      [@ EXCEPT !.size = DataSize(r.data),
                                                !.part_md5 = DataMd5(r.data)]]
                      /\ nextId' = nextId
                 ELSE /\ parts' = [parts EXCEPT ![r.num] = NewRow(nextId, r.data)]
                      /\ nextId' = nextId + 1
              /\ Set(s, Finish(r, "OK"))
           \/ /\ Fail(1)
              /\ UNCHANGED <<parts, nextId>>
              /\ Set(s, [r EXCEPT !.pc = "clean", !.err = "InternalError"])
    /\ UNCHANGED <<lookup, impl, upStatus, pbytes, obj, objBytes, nreq>>

\* upload_part_handle, clean_put: the uploaded file is deleted from the store
UploadClean(s) ==
    /\ At(s, "upload", "clean")
    /\ pbytes' = [pbytes EXCEPT ![rq[s].num] = NoData]
    /\ Set(s, Finish(rq[s], rq[s].err))
    /\ UNCHANGED <<lookup, impl, upStatus, parts, nextId, obj, objBytes, nreq, nfail>>

\* ------------------------------------------------------------- specification
Next ==
    \E s \in Slots :
        \/ CompleteStart(s)
        \/ CompleteDelCompleted(s)
        \/ CompleteGate(s)
        \/ CompleteGetObj(s)
        \/ CompleteReset(s)
        \/ CompleteValidate(s)
        \/ CompleteWrite(s)
        \/ CompleteSavePart(s)
        \/ CompleteFinalize(s)
        \/ CompleteClearUnused(s)
        \/ CompleteClearUsed(s)
        \/ CompleteDeleteUpload(s)
        \/ CompleteRevert(s)
        \/ AbortStart(s)
        \/ AbortDelCompleted(s)
        \/ AbortQuery(s)
        \/ AbortClear(s)
        \/ AbortDelete(s)
        \/ InitiateStart(s)
        \/ InitiateBind(s)
        \/ UploadStart(s)
        \/ UploadStream(s)
        \/ UploadSave(s)
        \/ UploadClean(s)

Spec == Init /\ [][Next]_vars

\* ------------------------------------------------------------- lookup by (bucket, key)
\* a row taken for the bucket's by its name alone
belong_to_bucket_by_name(upload, bucket) == upload.bucket_name = bucket.name

\* MultipartUpload.belong_to_bucket
belong_to_bucket(upload, bucket) ==
    upload.bucket_name = bucket.name /\ upload.bucket_id = bucket.id

\* the rows filter(key_md5=, bucket_name=, obj_key=) selects; key_md5 is the
\* digest of obj_key in every row (save() keeps it so), hence selects nothing
\* beyond obj_key
get_multipart_upload_queryset(bucket_name, obj_path) ==
    {u \in UploadIds : /\ uploads[u] # NoUploadRow
                       /\ uploads[u].bucket_name = bucket_name
                       /\ uploads[u].obj_key = obj_path}

\* get_multipart_upload_delete_invalid(bucket, obj_path) is called: the
\* queryset is built and its rows are fetched when the loop starts; a
\* failing query ends the call with S3InternalError
LookupQuery ==
    /\ lk.pc \in {"idle", "done"}
    /\ nreq < MaxRequests
    /\ nreq' = nreq + 1
    /\ \E bucket \in LiveBuckets, obj_path \in Keys :
         LET l == [IdleLookup EXCEPT !.bucket = bucket, !.obj_path = obj_path]
             found == get_multipart_upload_queryset(bucket.name, obj_path)
         IN  \/ /\ Fail(0)
                /\ lk' = [l EXCEPT !.pc = "iter", !.qs = uploads, !.todo = found]
             \/ /\ Fail(1)
                /\ lk' = [l EXCEPT !.pc = "done", !.err = "InternalError"]
    /\ UNCHANGED <<partsTable, bucketParts, impl, upStatus, parts, pbytes, nextId, obj, objBytes, rq, uploads, ini>>

\* one round of `for upload in qs`, the rows coming in an order the query
\* does not fix: a row of another bucket is deleted (a failure is passed
\* over), a row of this bucket is appended to valid_uploads
LookupIter ==
    /\ lk.pc = "iter"
    /\ \E u \in lk.todo :
         IF ~belong_to_bucket(lk.qs[u], lk.bucket)
         THEN /\ \E f \in 0..1 :
                   /\ Fail(f)
                   /\ uploads' = IF f = 0 THEN [uploads EXCEPT ![u] = NoUploadRow]
                                  ELSE uploads
              /\ lk' = [lk EXCEPT !.todo = @ \ {u}]
         ELSE /\ lk' = [lk EXCEPT !.todo = @ \ {u},
                                  !.valid_uploads = Append(@, u)]
              /\ UNCHANGED <<uploads, nfail>>
    /\ UNCHANGED <<partsTable, bucketParts, impl, upStatus, parts, pbytes, nextId, obj, objBytes, rq, nreq, ini>>

\* the loop is over: None, or valid_uploads[0]
LookupReturn ==
    /\ lk.pc = "iter"
    /\ lk.todo = {}
    /\ lk' = [lk EXCEPT !.pc = "done",
                        !.ret = IF Len(lk.valid_uploads) = 0 THEN NoUpload
                                ELSE lk.valid_uploads[1]]
    /\ UNCHANGED <<partsTable, bucketParts, impl, upStatus, parts, pbytes, nextId, obj, objBytes, rq, nreq, nfail,
                   uploads, ini>>

\* the uploads table before the lookups of the behaviour: any rows, each of a
\* bucket that existed when the row was created
InitLookup ==
    /\ impl = "view"
    /\ upStatus = NoUpload
    /\ pbytes = [n \in PartNums |-> NoData]
    /\ parts = [n \in PartNums |-> NoRow]
    /\ nextId = 1
    /\ obj = NoObj
    /\ objBytes = <<>>
    /\ rq = [s \in Slots |-> IdleReq]
    /\ nreq = 0
    /\ nfail = 0
    /\ uploads \in [UploadIds -> {NoUploadRow}
                       \cup {r \in UploadRows : r.bucket_name = BucketName(r.bucket_id)}]
    /\ lk = IdleLookup
    /\ ini = [s \in Slots |-> IdleInitiate]
    /\ ptab = {}
    /\ pup = [s \in Slots |-> IdlePartUpload]
    /\ NoBucketParts

NextLookup ==
    \/ LookupQuery
    \/ LookupIter
    \/ LookupReturn

SpecLookup == InitLookup /\ [][NextLookup]_vars

\* ------------------------------------------------------------- part uploads against the parts table
\* a row of the parts table
PartRow(i, n, d) == [id |-> i, part_num |-> n, size |-> DataSize(d), part_md5 |-> DataMd5(d)]

\* an insert into a table without the constraint
NoConstraint(rows, n) == FALSE

\* Meta.unique_together = ['upload_id', 'part_num']: an insert of a second
\* row with the part number is refused by the table
unique_together(rows, n) == \E p \in rows : p.part_num = n

\* upload_part_handle_save, up to get_part_by_upload_id_part_num: the body
\* is received and the row of the part number is looked up (None without one)
PartGet(s) ==
    /\ pup[s].pc \in {"idle", "done"}
    /\ nreq < MaxRequests
    /\ nreq' = nreq + 1
    /\ \E n \in PartNums, d \in Data :
         LET r == [IdlePartUpload EXCEPT !.pc = "save", !.num = n, !.data = d]
             found == {p \in ptab : p.part_num = n}
         IN  IF found = {} THEN pup' = [pup EXCEPT ![s] = r]
             ELSE IF Cardinality(found) = 1
             THEN \E p \in found : pup' = [pup EXCEPT ![s] = [r EXCEPT !.part = p.id]]
             ELSE pup' = [pup EXCEPT ![s] = [r EXCEPT !.pc = "done", !.resp = "InternalError"]]
    /\ UNCHANGED <<bucketParts, impl, upStatus, parts, pbytes, nextId, obj, objBytes, rq, nfail,
                   uploads, lk, ini, ptab>>

\* `if part:` size and part_md5 of the row are overwritten, an UPDATE by
\* primary key
PartUpdate(s) ==
    /\ pup[s].pc = "save"
    /\ pup[s].part # 0
    /\ LET r == pup[s]
       IN  \/ /\ Fail(0)
              /\ ptab' = {IF p.id = r.part THEN PartRow(p.id, p.part_num, r.data) ELSE p :
                             p \in ptab}
              /\ pup' = [pup EXCEPT ![s] = [r EXCEPT !.pc = "done", !.resp = "OK"]]
           \/ /\ Fail(1)
              /\ ptab' = ptab
              /\ pup' = [pup EXCEPT ![s] = [r EXCEPT !.pc = "done", !.resp = "InternalError"]]
    /\ UNCHANGED <<bucketParts, impl, upStatus, parts, pbytes, nextId, obj, objBytes, rq, nreq,
                   uploads, lk, ini>>

\* `else:` create_part_metadata inserts a row under the next id of the table;
\* an insert the table refuses ends the request with S3InternalError
PartInsert(s) ==
    /\ pup[s].pc = "save"
    /\ pup[s].part = 0
    /\ LET r == pup[s]
       IN  \/ /\ ~unique_together(ptab, r.num)
              /\ Fail(0)
              /\ ptab' = ptab \cup {PartRow(nextId, r.num, r.data)}
              /\ nextId' = nextId + 1
              /\ pup' = [pup EXCEPT ![s] = [r EXCEPT !.pc = "done", !.part = nextId,
                                                     !.resp = "OK"]]
           \/ /\ IF unique_together(ptab, r.num) THEN Fail(0) ELSE Fail(1)
              /\ ptab' = ptab
              /\ nextId' = nextId
              /\ pup' = [pup EXCEPT ![s] = [r EXCEPT !.pc = "done", !.resp = "InternalError"]]
    /\ UNCHANGED <<bucketParts, impl, upStatus, parts, pbytes, obj, objBytes, rq, nreq, uploads, lk, ini>>

\* the parts table before the part uploads of the behaviour: a row for some
\* of the part numbers
InitPartsTable ==
    /\ impl = "view"
    /\ upStatus = STATUS_UPLOADING
    /\ pbytes = [n \in PartNums |-> NoData]
    /\ parts = [n \in PartNums |-> NoRow]
    /\ obj = NoObj
    /\ objBytes = <<>>
    /\ rq = [s \in Slots |-> IdleReq]
    /\ nreq = 0
    /\ nfail = 0
    /\ uploads = [u \in UploadIds |-> NoUploadRow]
    /\ lk = IdleLookup
    /\ ini = [s \in Slots |-> IdleInitiate]
    /\ \E S \in SUBSET PartNums :
         /\ ptab = {PartRow(Cardinality({m \in S : m <= n}), n, "d2") : n \in S}
         /\ nextId = Cardinality(S) + 1
    /\ pup = [s \in Slots |-> IdlePartUpload]
    /\ NoBucketParts

NextPartsTable ==
    \E s \in Slots :
        \/ PartGet(s)
        \/ PartUpdate(s)
        \/ PartInsert(s)

SpecPartsTable == InitPartsTable /\ [][NextPartsTable]_vars

\* ------------------------------------------------------------- initiate against the uploads table
\* the rows of `bucket` for `obj_key`
UploadsOf(bucket, obj_key) ==
    {u \in get_multipart_upload_queryset(bucket.name, obj_key) :
        belong_to_bucket(uploads[u], bucket)}

\* create_multipart_upload, up to the lookup: get_multipart_upload_delete_invalid
\* deletes the stale rows it finds (D: the ones whose deletion succeeds) and
\* returns one of the bucket's rows, or None
InitiateLookup(s) ==
    /\ ini[s].pc \in {"idle", "done"}
    /\ nreq < MaxRequests
    /\ nreq' = nreq + 1
    /\ \E bucket \in LiveBuckets, obj_key \in Keys :
         LET found == get_multipart_upload_queryset(bucket.name, obj_key)
             valid == UploadsOf(bucket, obj_key)
             r == [IdleInitiate EXCEPT !.pc = "bind", !.bucket = bucket, !.obj_key = obj_key]
         IN  /\ \E D \in SUBSET (found \ valid) :
                  /\ Fail(Cardinality((found \ valid) \ D))
                  /\ uploads' = [u \in UploadIds |-> IF u \in D THEN NoUploadRow ELSE uploads[u]]
             /\ IF valid = {}
                THEN ini' = [ini EXCEPT ![s] = r]
                ELSE \E u \in valid : ini' = [ini EXCEPT ![s] = [r EXCEPT !.upload = u]]
    /\ UNCHANGED <<partsTable, bucketParts, impl, upStatus, parts, pbytes, nextId, obj, objBytes, rq, lk>>

\* update_upload_belong_to_object: the row found is rebound in place
InitiateUpdate(s) ==
    /\ ini[s].pc = "bind"
    /\ ini[s].upload # NoUpload
    /\ LET r == ini[s]
           u == r.upload
       IN  \/ /\ uploads[u] # NoUploadRow
              /\ Fail(0)
              /\ uploads' = [uploads EXCEPT ![u] = [bucket_id |-> r.bucket.id,
                                                    bucket_name |-> r.bucket.name,
                                                    obj_key |-> r.obj_key]]
              /\ ini' = [ini EXCEPT ![s] = [r EXCEPT !.pc = "done", !.resp = "OK"]]
           \/ /\ IF uploads[u] = NoUploadRow THEN Fail(0) ELSE Fail(1)
              /\ uploads' = uploads
              /\ ini' = [ini EXCEPT ![s] = [r EXCEPT !.pc = "done", !.resp = "InternalError"]]
    /\ UNCHANGED <<partsTable, bucketParts, impl, upStatus, parts, pbytes, nextId, obj, objBytes, rq, nreq, lk>>

\* create_multipart_upload_task: a row is inserted under a new id
InitiateCreate(s) ==
    /\ ini[s].pc = "bind"
    /\ ini[s].upload = NoUpload
    /\ \E u \in UploadIds :
         /\ uploads[u] = NoUploadRow
         /\ \A v \in 1..(u - 1) : uploads[v] # NoUploadRow
         /\ LET r == ini[s]
            IN  \/ /\ Fail(0)
                   /\ uploads' = [uploads EXCEPT ![u] = [bucket_id |-> r.bucket.id,
                                                         bucket_name |-> r.bucket.name,
                                                         obj_key |-> r.obj_key]]
                   /\ ini' = [ini EXCEPT ![s] = [r EXCEPT !.pc = "done", !.upload = u,
                                                          !.resp = "OK"]]
                \/ /\ Fail(1)
                   /\ uploads' = uploads
                   /\ ini' = [ini EXCEPT ![s] = [r EXCEPT !.pc = "done",
                                                          !.resp = "InternalError"]]
    /\ UNCHANGED <<partsTable, bucketParts, impl, upStatus, parts, pbytes, nextId, obj, objBytes, rq, nreq, lk>>

\* the uploads table before the initiates of the behaviour: any rows, of
\* which no two are of the same bucket and key
InitInitiate ==
    /\ InitLookup
    /\ \A u, v \in UploadIds :
         (u # v /\ uploads[u] # NoUploadRow) => uploads[u] # uploads[v]

NextInitiate ==
    \E s \in Slots :
        \/ InitiateLookup(s)
        \/ InitiateUpdate(s)
        \/ InitiateCreate(s)

SpecInitiate == InitInitiate /\ [][NextInitiate]_vars

\* ------------------------------------------------------------- the parts table of a bucket
\* a row of the parts table: the columns that tell whose part it is
ObjectPart(u, n, o) == [upload_id |-> u, part_num |-> n, obj_id |-> o]

\* HarborManager.get_or_create_obj: the object row of a key, one id per key
ObjectId(k) == IF k = "k1" THEN ObjId ELSE ObjId + 1

\* the ids the uploads table has given out (the row of a deleted upload keeps
\* its key here, so that its id is not given again)
UsedUploadIds == {u \in UploadIds : utab[u].obj_key # ""}

\* manifests that passed handle_validate_complete_parts: ascending part numbers
AscendingNums == {q \in SeqsUpTo(PartNums, MaxManifest) :
                     Len(q) > 0 /\ \A i \in 1..(Len(q) - 1) : q[i] < q[i + 1]}

\* create_multipart_upload: no Upload row for the key, one is created
ObjInitiate ==
    /\ job.pc = "idle"
    /\ \E k \in Keys, u \in UploadIds \ UsedUploadIds :
         /\ \A v \in UploadIds : ~(utab[v].status # NoUpload /\ utab[v].obj_key = k)
         /\ \A v \in UploadIds \ UsedUploadIds : u <= v
         /\ utab' = [utab EXCEPT ![u] = [status |-> STATUS_UPLOADING, obj_key |-> k]]
    /\ UNCHANGED <<otab, okeys, job, partsTable, uploads, lk, ini, impl, upStatus, parts,
                   pbytes, nextId, obj, objBytes, rq, nreq, nfail>>

\* upload_part: the bytes are stored under the part's key and the row of
\* (upload_id, part_num) is updated, obj_id not being among the columns
\* written, or inserted with obj_id = 0
ObjUploadPart ==
    /\ job.pc = "idle"
    /\ \E u \in UploadIds, n \in PartNums :
         /\ utab[u].status = STATUS_UPLOADING
         /\ okeys' = okeys \cup {<<u, n>>}
         /\ otab' = IF \E p \in otab : p.upload_id = u /\ p.part_num = n THEN otab
                    ELSE otab \cup {ObjectPart(u, n, 0)}
    /\ UNCHANGED <<utab, job, partsTable, uploads, lk, ini, impl, upStatus, parts,
                   pbytes, nextId, obj, objBytes, rq, nreq, nfail>>

\* complete_multipart_upload up to the composition: set_composing(), the
\* object of the key is got or created and reset, and the rows of the upload
\* are matched with the manifest (a number without a row: InvalidPart and
\* set_uploading())
ObjCompleteStart ==
    /\ job.pc = "idle"
    /\ \E u \in UploadIds, nums \in AscendingNums :
         /\ utab[u].status = STATUS_UPLOADING
         /\ pre_reset_upload
         /\ IF \A i \in 1..Len(nums) :
                 \E p \in otab : p.upload_id = u /\ p.part_num = nums[i]
            THEN /\ utab' = [utab EXCEPT ![u].status = STATUS_COMPOSING]
                 /\ job' = [IdleJob EXCEPT !.pc = "compose", !.upload = u, !.nums = nums]
            ELSE UNCHANGED <<utab, job>>
    /\ UNCHANGED <<otab, okeys, partsTable, uploads, lk, ini, impl, upStatus, parts,
                   pbytes, nextId, obj, rq, nreq, nfail>>

\* save_part_to_object for the next number of the manifest: part.obj_id =
\* obj.id and part.save(); a failed write or save raises, and the caller sets
\* the Upload back to Uploading
ObjSavePart ==
    /\ job.pc = "compose"
    /\ LET u == job.upload
           n == job.nums[job.k]
       IN  \/ /\ Fail(0)
              /\ otab' = {IF p.upload_id = u /\ p.part_num = n
                          THEN ObjectPart(u, n, ObjectId(utab[u].obj_key)) ELSE p : p \in otab}
              /\ job' = IF job.k = Len(job.nums) THEN [job EXCEPT !.pc = "clear"]
                        ELSE [job EXCEPT !.k = @ + 1]
              /\ utab' = utab
           \/ /\ Fail(1)
              /\ otab' = otab
              /\ job' = IdleJob
              /\ utab' = [utab EXCEPT ![u].status = STATUS_UPLOADING]
    /\ UNCHANGED <<okeys, partsTable, uploads, lk, ini, impl, upStatus, parts,
                   pbytes, nextId, obj, objBytes, rq, nreq>>

\* the end of the completion: the rows and bytes of the unused parts and the
\* bytes of the used parts are deleted, the rows of the used parts are kept,
\* and the Upload row is deleted
ObjClear ==
    /\ job.pc = "clear"
    /\ LET u == job.upload
       IN  /\ otab' = {p \in otab : p.upload_id = u => InSeq(p.part_num, job.nums)}
           /\ okeys' = {x \in okeys : x[1] # u}
           /\ utab' = [utab EXCEPT ![u].status = NoUpload]
           /\ job' = IdleJob
    /\ UNCHANGED <<partsTable, uploads, lk, ini, impl, upStatus, parts,
                   pbytes, nextId, obj, objBytes, rq, nreq, nfail>>

\* a bucket without uploads
InitObjectParts ==
    /\ InitLookup
    /\ uploads = [u \in UploadIds |-> NoUploadRow]

NextObjectParts ==
    \/ ObjInitiate
    \/ ObjUploadPart
    \/ ObjCompleteStart
    \/ ObjSavePart
    \/ ObjClear

SpecObjectParts == InitObjectParts /\ [][NextObjectParts]_vars

\* ------------------------------------------------------------- the two aborts side by side
\* an abort as a record of its own: the Upload status, the Part rows (the
\* obj_id of each stored row) and the part keys with bytes it works on, its
\* locals and its response
NoPartRow == -1

AbortRun(st, rows, keys) ==
    [pc |-> "start", up |-> st, rows |-> rows, keys |-> keys, plist |-> <<>>,
     failed |-> <<>>, pass |-> 1, k |-> 1, resp |-> "none"]

RECURSIVE NumsFrom(_, _)
NumsFrom(n, S) ==
    IF n > MaxPart THEN <<>>
    ELSE (IF n \in S THEN <<n>> ELSE <<>>) \o NumsFrom(n + 1, S)

\* abort_multipart_upload of implementation i, one step of it on the abort r:
\* fu tells whether the deletion of the Upload row fails, fr and fb how many
\* attempts to delete the row and the bytes of the part at hand fail
AbortStep(i, r, fu, fr, fb) ==
    IF r.pc = "start"
    THEN IF r.up = STATUS_COMPOSING
         THEN [r EXCEPT !.pc = "done", !.resp = "CompletionAlreadyInProgress"]
         ELSE IF r.up = STATUS_COMPLETED
         THEN [r EXCEPT !.pc = "done", !.resp = "NoSuchUpload",
                        !.up = IF fu THEN @ ELSE NoUpload]
         ELSE LET l == NumsFrom(1, {n \in PartNums : r.rows[n] = 0})
              IN  [r EXCEPT !.plist = l, !.pc = IF Len(l) = 0 THEN "delete" ELSE "clear"]
    ELSE IF r.pc = "clear"
    THEN LET n == r.plist[r.k]
             failed == IF fr = 2 THEN Append(r.failed, n) ELSE r.failed
             d == [r EXCEPT !.rows[n] = IF fr < 2 THEN NoPartRow ELSE @,
                            !.keys = IF fb < 2 THEN @ \ {n} ELSE @]
             next == IF i = "view" THEN AfterPassView(r.pass, r.plist, failed)
                     ELSE AfterPassHandler(r.pass, r.plist, failed)
         IN  IF r.k < Len(r.plist) THEN [d EXCEPT !.k = @ + 1, !.failed = failed]
             ELSE IF next = "error" THEN [d EXCEPT !.pc = "done", !.resp = "InternalError"]
             ELSE IF next = "delete" THEN [d EXCEPT !.pc = "delete"]
             ELSE [d EXCEPT !.plist = failed, !.failed = <<>>, !.k = 1, !.pass = 2]
    ELSE IF r.pc = "delete"
    THEN IF fu THEN [r EXCEPT !.pc = "done", !.resp = "InternalError"]
         ELSE [r EXCEPT !.pc = "done", !.resp = "NoContent", !.up = NoUpload]
    ELSE r

\* both aborts load the Upload and list its parts
AbortBothStart ==
    /\ job.pc = "pair"
    /\ job.view.pc = "start"
    /\ \E fu \in BOOLEAN :
         /\ Fail(IF fu /\ job.view.up = STATUS_COMPLETED THEN 1 ELSE 0)
         /\ fu => job.view.up = STATUS_COMPLETED
         /\ job' = [job EXCEPT !.view = AbortStep("view", @, fu, 0, 0),
                               !.handler = AbortStep("handler", @, fu, 0, 0)]
    /\ UNCHANGED <<utab, otab, okeys, partsTable, uploads, lk, ini, impl, upStatus, parts,
                   pbytes, nextId, obj, objBytes, rq, nreq>>

\* the next deletion of both aborts, with the same failures for both
AbortBothStep ==
    /\ job.pc = "pair"
    /\ job.view.pc # "start"
    /\ job.view.pc # "done" \/ job.handler.pc # "done"
    /\ \E fu \in BOOLEAN, fr \in 0..2, fb \in 0..2 :
         /\ IF job.view.pc = "clear" \/ job.handler.pc = "clear"
            THEN ~fu /\ Fail(Cost(fr) + Cost(fb))
            ELSE fr = 0 /\ fb = 0 /\ Fail(IF fu THEN 1 ELSE 0)
         /\ job' = [job EXCEPT !.view = AbortStep("view", @, fu, fr, fb),
                               !.handler = AbortStep("handler", @, fu, fr, fb)]
    /\ UNCHANGED <<utab, otab, okeys, partsTable, uploads, lk, ini, impl, upStatus, parts,
                   pbytes, nextId, obj, objBytes, rq, nreq>>

\* the same Upload, Part rows and part bytes for both aborts: a row is new
\* (obj_id 0, with its bytes) or composed (the object's id, bytes deleted)
InitAbortBoth ==
    /\ impl = "view"
    /\ upStatus = NoUpload
    /\ pbytes = [n \in PartNums |-> NoData]
    /\ parts = [n \in PartNums |-> NoRow]
    /\ nextId = 1
    /\ obj = NoObj
    /\ objBytes = <<>>
    /\ rq = [s \in Slots |-> IdleReq]
    /\ nreq = 0
    /\ nfail = 0
    /\ uploads = [u \in UploadIds |-> NoUploadRow]
    /\ lk = IdleLookup
    /\ ini = [s \in Slots |-> IdleInitiate]
    /\ ptab = {}
    /\ pup = [s \in Slots |-> IdlePartUpload]
    /\ utab = [u \in UploadIds |-> [status |-> NoUpload, obj_key |-> ""]]
    /\ otab = {}
    /\ okeys = {}
    /\ \E st \in {STATUS_UPLOADING, STATUS_COMPOSING, STATUS_COMPLETED},
          rows \in [PartNums -> {NoPartRow, 0, ObjId}] :
         LET a == AbortRun(st, rows, {n \in PartNums : rows[n] = 0})
         IN  job = [pc |-> "pair", view |-> a, handler |-> a]

NextAbortBoth ==
    \/ AbortBothStart
    \/ AbortBothStep

SpecAbortBoth == InitAbortBoth /\ [][NextAbortBoth]_vars

\* ------------------------------------------------------------- clear_multipart_upload
\* get_multipart_queryset(days_ago): the expired uploads, oldest first (the
\* uploads of the model are all expired, and ids are given in the order of
\* creation)
ExpiredUploads == {u \in UploadIds : utab[u].status # NoUpload}

\* get_parts_queryset_by_upload_id: the part numbers of all rows of the upload
PartsOfUpload(u) == NumsFrom(1, {n \in PartNums : \E p \in otab : p.upload_id = u /\ p.part_num = n})

\* handle_all, chunk_queryset(qs, 1): qs.all()[:1] is read anew; without a
\* row the command ends, with one clear_one_mulitipart lists its parts
ReclaimChunk ==
    /\ job.pc = "chunk"
    /\ IF ExpiredUploads = {} THEN job' = [job EXCEPT !.pc = "done"]
       ELSE LET u == CHOOSE v \in ExpiredUploads : \A w \in ExpiredUploads : v <= w
            IN  job' = [job EXCEPT !.pc = "clear", !.upload = u, !.nums = PartsOfUpload(u),
                                   !.k = 1, !.failed = 0]
    /\ UNCHANGED <<utab, otab, okeys, partsTable, uploads, lk, ini, impl, upStatus, parts,
                   pbytes, nextId, obj, objBytes, rq, nreq, nfail>>

\* Command.clear_parts_cache, one round of its loop: the bytes under the
\* part's key are deleted and then the row; a part whose bytes cannot be
\* deleted (the store fails for the uploads in job.stuck as long as the
\* command runs) is counted as failed and keeps its row
ReclaimPart ==
    /\ job.pc = "clear"
    /\ job.k <= Len(job.nums)
    /\ LET u == job.upload
           n == job.nums[job.k]
       IN  IF u \in job.stuck
           THEN /\ job' = [job EXCEPT !.k = @ + 1, !.failed = @ + 1]
                /\ UNCHANGED <<otab, okeys>>
           ELSE /\ okeys' = okeys \ {<<u, n>>}
                /\ otab' = {p \in otab : ~(p.upload_id = u /\ p.part_num = n)}
                /\ job' = [job EXCEPT !.k = @ + 1]
    /\ UNCHANGED <<utab, partsTable, uploads, lk, ini, impl, upStatus, parts,
                   pbytes, nextId, obj, objBytes, rq, nreq, nfail>>

\* clear_one_mulitipart after clear_parts_cache: with failed parts the
\* Upload row is left, else upload.safe_delete(); the loop of chunk_queryset
\* goes on
ReclaimUpload ==
    /\ job.pc = "clear"
    /\ job.k > Len(job.nums)
    /\ utab' = IF job.failed > 0 \/ job.upload \in job.stuck THEN utab
               ELSE [utab EXCEPT ![job.upload].status = NoUpload]
    /\ job' = [job EXCEPT !.pc = "chunk"]
    /\ UNCHANGED <<otab, okeys, partsTable, uploads, lk, ini, impl, upStatus, parts,
                   pbytes, nextId, obj, objBytes, rq, nreq, nfail>>

\* the tables when the command starts: uploads in any status, each part of
\* them without a row, with a new row (obj_id 0, bytes stored) or with a
\* composed one (the id of the upload's object, bytes deleted)
InitReclaim ==
    /\ impl = "view"
    /\ upStatus = NoUpload
    /\ pbytes = [n \in PartNums |-> NoData]
    /\ parts = [n \in PartNums |-> NoRow]
    /\ nextId = 1
    /\ obj = NoObj
    /\ objBytes = <<>>
    /\ rq = [s \in Slots |-> IdleReq]
    /\ nreq = 0
    /\ nfail = 0
    /\ uploads = [u \in UploadIds |-> NoUploadRow]
    /\ lk = IdleLookup
    /\ ini = [s \in Slots |-> IdleInitiate]
    /\ ptab = {}
    /\ pup = [s \in Slots |-> IdlePartUpload]
    /\ \E st \in [UploadIds -> {NoUpload, STATUS_UPLOADING, STATUS_COMPOSING, STATUS_COMPLETED}],
          rows \in [UploadIds \X PartNums -> {NoPartRow, 0, 1}] :
         LET key(u) == IF u % 2 = 1 THEN "k1" ELSE "k2"
         IN  /\ \A u \in UploadIds, n \in PartNums : st[u] = NoUpload => rows[u, n] = NoPartRow
             /\ utab = [u \in UploadIds |->
                          [status |-> st[u], obj_key |-> IF st[u] = NoUpload THEN "" ELSE key(u)]]
             /\ otab = {ObjectPart(x[1], x[2], IF rows[x] = 0 THEN 0 ELSE ObjectId(key(x[1]))) :
                           x \in {y \in UploadIds \X PartNums : rows[y] # NoPartRow}}
             /\ okeys = {x \in UploadIds \X PartNums : rows[x] = 0}
    /\ \E S \in SUBSET ExpiredUploads : job = [IdleJob EXCEPT !.pc = "chunk", !.stuck = S]

NextReclaim ==
    \/ ReclaimChunk
    \/ ReclaimPart
    \/ ReclaimUpload

SpecReclaim == InitReclaim /\ [][NextReclaim]_vars

\* the command is a process of its own and goes on as long as it has a step
SpecReclaimFair == SpecReclaim /\ WF_vars(NextReclaim)


\* ------------------------------------------------------------- properties
Completing(s) ==
    /\ rq[s].kind = "complete"
    /\ rq[s].gated
    /\ rq[s].pc \notin {"idle", "done"}

Aborting(s) == rq[s].kind = "abort" /\ rq[s].pc \in {"query", "clear", "delete"}

\* the request of worker s ends in this step
Ends(s) == rq[s].pc \notin {"idle", "done"} /\ rq'[s].pc = "done"

\* C1: of the completion requests on the Upload, at most one at a time is
\* past the Uploading->Composing gate and composing the object.
C1_OneComposer == Cardinality({s \in Slots : Completing(s)}) <= 1

\* C2: an abort that passed its status check and a completion that passed
\* the gate are never under way together.
C2_AbortExcludesCompose == ~(\E a, c \in Slots : Aborting(a) /\ Completing(c))

\* C3: while the Upload is stored as Composing, no step of a part upload
\* changes a Part row or the bytes of a part.
C3_NoPartChangeWhileComposing ==
    [][(upStatus = STATUS_COMPOSING
        /\ \E s \in Slots : UploadStream(s) \/ UploadSave(s) \/ UploadClean(s))
       => (parts' = parts /\ pbytes' = pbytes)]_vars

\* C4: a completion that ends with the error of a failed part validation
\* (InvalidPart, EntityTooSmall) leaves the Upload row, the Part rows, the part
\* bytes and the destination object as the request found them.
C4_RejectedLeavesNoTrace ==
    [][\A s \in Slots :
         (Ends(s) /\ rq'[s].kind = "complete" /\ rq'[s].at = "validate")
         => (rq'[s].resp \in {"InvalidPart", "EntityTooSmall"} /\ Now' = rq[s].pre)]_vars

\* the digest over the stored checksums of the manifest's parts, taken in
\* ascending part-number order, with the number of manifest parts
AscendingETag(m, used) ==
    [digest |-> [i \in 1..Len(m) |-> used[m[i].PartNumber].part_md5], count |-> Len(m)]

\* C5: the composite ETag a completion goes on to return is the digest of the
\* used parts' stored checksums in ascending part-number order, suffixed with
\* the number of manifest parts.
C5_ETagAscending ==
    \A s \in Slots :
        Completing(s) /\ rq[s].pc \notin {"getobj", "reset", "validate", "revert"}
        => rq[s].etag = AscendingETag(rq[s].manifest, rq[s].used)

\* C6: a completion that passed the gate ends either with success, the object's
\* metadata finalized and the Upload row deleted, or with an error, the Upload
\* row stored as Uploading and none of its parts reclaimed.
C6_SuccessOrRetryable ==
    [][\A s \in Slots :
         (Ends(s) /\ rq'[s].kind = "complete" /\ rq'[s].gated)
         => \/ rq'[s].resp = "OK" /\ rq[s].finalized /\ upStatus' = NoUpload
            \/ rq'[s].resp # "OK" /\ upStatus' = STATUS_UPLOADING /\ rq[s].ndel = 0]_vars

UnusedNums(r) == {r.unused[i].num : i \in 1..Len(r.unused)}

UsedNums(r) == {r.manifest[i].PartNumber : i \in 1..Len(r.manifest)}

\* C7: when a completion reports success (in a behaviour without store
\* failures), no Part row of the upload has obj_id = 0, no bytes lie under the
\* key of an unused part, and every used part's row exists with the object's id.
C7_CleanAfterSuccess ==
    [][\A s \in Slots :
         (Ends(s) /\ rq'[s].kind = "complete" /\ rq'[s].resp = "OK" /\ nfail' = 0)
         => /\ \A n \in PartNums : parts'[n] # NoRow => parts'[n].obj_id # 0
            /\ \A n \in UnusedNums(rq[s]) : pbytes'[n] = NoData
            /\ \A n \in UsedNums(rq[s]) : parts'[n] # NoRow /\ parts'[n].obj_id = ObjId]_vars

\* C8: when a completion that wrote Composing answers with an error, and no
\* status write of it failed, the Upload row is stored as Uploading.
C8_ErrorReverts ==
    [][\A s \in Slots :
         (Ends(s) /\ rq'[s].kind = "complete" /\ rq'[s].gated /\ rq'[s].resp # "OK"
          /\ rq'[s].revert # "failed")
         => upStatus' = STATUS_UPLOADING]_vars

\* a manifest as the input contract of the completion states it: not empty,
\* every entry with a checksum and a part number in range, numbers strictly ascending
WellFormed(m) ==
    /\ Len(m) > 0
    /\ \A i \in 1..Len(m) : m[i].ETag # NoETagKey /\ m[i].PartNumber \in PartNums
    /\ \A i, j \in 1..Len(m) : i < j => m[i].PartNumber < m[j].PartNumber

\* C9 (as stated): a completion whose manifest fails validation, in its shape
\* or against the stored parts, never wrote Composing.
C9_RejectedBeforeComposing ==
    \A s \in Slots :
        (rq[s].kind = "complete" /\ (~rq[s].shape_ok \/ rq[s].at = "validate"))
        => ~rq[s].gated

\* C9 (amended): a completion whose manifest is ill-formed (empty, an entry
\* without checksum or number, a number out of range or out of order) is
\* answered before the Upload row is loaded and never writes Composing; a
\* manifest that fails against the stored parts is detected after Composing
\* was written.
C9_ShapeRejectedBeforeComposing ==
    \A s \in Slots :
        rq[s].kind = "complete"
        => /\ rq[s].pc # "done" => WellFormed(rq[s].manifest)
           /\ ~rq[s].shape_ok => (rq[s].pc = "done" /\ ~rq[s].gated /\ rq[s].revert = "none")
           /\ rq[s].at = "validate" => rq[s].gated

C9_Witness ==
    \E s \in Slots :
        /\ rq[s].kind = "complete" /\ rq[s].pc = "done" /\ ~rq[s].shape_ok
        /\ rq[s].resp = "InvalidPartOrder" /\ ~rq[s].gated
        /\ upStatus = STATUS_UPLOADING

\* what C10 says of a completion whose chunk write failed twice, but for the
\* stored status
WriteFailureRecord(r) ==
    /\ r.wfails = 0 => r.attempts <= 1
    /\ r.wfails = 1 => (r.attempts = 2 /\ r.at # "write")
    /\ r.wfails = 2 <=> r.at = "write"
    /\ r.at = "write"
       => /\ r.attempts = 2 /\ ~r.finalized /\ r.ndel = 0
          /\ r.pc = "done" <=> r.pc # "revert"
          /\ r.pc = "done" => (r.resp = "InternalError" /\ r.revert # "none")

RECURSIVE SizesFrom(_, _, _)
SizesFrom(m, used, i) ==
    IF i > Len(m) THEN 0 ELSE used[m[i].PartNumber].size + SizesFrom(m, used, i + 1)

ManifestSize(r) == SizesFrom(r.manifest, r.used, 1)

\* C11: when a completion reports success the object's recorded size is the
\* sum of the stored sizes of the parts named in its manifest, and its share
\* code is the code recorded on the Upload.
C11_SizeAndAcl ==
    [][\A s \in Slots :
         (Ends(s) /\ rq'[s].kind = "complete" /\ rq'[s].resp = "OK")
         => /\ obj'.si = ManifestSize(rq[s])
            /\ obj'.share = UploadPermsCode]_vars

\* the sizes, as stored in rows, of the manifest's parts before its i-th
RECURSIVE SizesBefore(_, _, _)
SizesBefore(m, rows, i) ==
    IF i <= 1 THEN 0 ELSE rows[m[i - 1].PartNumber].size + SizesBefore(m, rows, i - 1)

\* C12: when a completion reports success every part of its manifest has a row
\* whose obj_offset is the sum of the sizes of the manifest's parts with
\* smaller numbers, and the ranges [obj_offset, obj_offset + size) end at the
\* object's recorded size.
C12_OffsetsTile ==
    [][\A s \in Slots :
         (Ends(s) /\ rq'[s].kind = "complete" /\ rq'[s].resp = "OK")
         => LET m == rq[s].manifest
            IN  /\ \A i \in 1..Len(m) :
                     /\ parts'[m[i].PartNumber] # NoRow
                     /\ parts'[m[i].PartNumber].obj_offset = SizesBefore(m, parts', i)
                /\ obj'.si = SizesBefore(m, parts', Len(m) + 1)]_vars

\* the completion of worker s has reported success
Succeeded(s) == rq[s].kind = "complete" /\ rq[s].pc = "done" /\ rq[s].resp = "OK"

\* C13: when a completion reports success (and the write of Completed, where
\* it came to it, did not fail) the Upload row is absent or stored as
\* Completed, and the upload has not been completed by another request.
C13_CompletedOnce ==
    [][\A s \in Slots :
         (Ends(s) /\ rq'[s].kind = "complete" /\ rq'[s].resp = "OK" /\ nfail' - nfail < 2)
         => /\ upStatus' \in {NoUpload, STATUS_COMPLETED}
            /\ \A t \in Slots \ {s} : ~Succeeded(t)]_vars

\* C14: a completion that finalized the object's metadata goes on through the
\* reclaiming of its parts to the success response whatever deletion fails;
\* the reclaiming leaves the object and the Upload row as they are, and the
\* Upload row is gone at the response unless its own deletion failed.
C14_CleanupTolerated ==
    [][\A s \in Slots :
         (rq[s].kind = "complete" /\ rq[s].finalized /\ rq'[s] # rq[s])
         => /\ rq'[s].pc \in {"clear_unused", "clear_used", "del_upload", "done"}
            /\ rq'[s].pc = "done"
               => (rq'[s].resp = "OK" /\ (nfail' = nfail => upStatus' = NoUpload))
            /\ rq[s].pc \in {"clear_unused", "clear_used"}
               => (obj' = obj /\ objBytes' = objBytes /\ upStatus' = upStatus)]_vars

\* the only request of the behaviour is a completion that reported success and
\* deleted the Upload row although the bytes of a part it composed are still there
C14_Witness ==
    \E s \in Slots :
        /\ Succeeded(s) /\ nreq = 1 /\ nfail > 0
        /\ upStatus = NoUpload
        /\ \E n \in PartNums :
             parts[n] # NoRow /\ parts[n].obj_id = ObjId /\ pbytes[n] # NoData

\* worker s takes a completion or an abort in this step, and the request
\* comes to load the Upload row
Loads(s) ==
    /\ ~Serving(s) /\ rq'[s] # rq[s]
    /\ rq'[s].kind \in {"complete", "abort"} /\ rq'[s].shape_ok

\* what a completion or abort that finds the Upload Completed does, but for
\* the Upload row: it goes to the deletion of the row and answers
\* NoSuchUpload, and no step of it changes a Part row, part bytes or the object
FindsCompleted(s) ==
    /\ (Loads(s) /\ upStatus = STATUS_COMPLETED)
       => (rq'[s].pc = "del_completed" /\ Now' = Now)
    /\ (rq[s].pc = "del_completed" /\ rq'[s] # rq[s])
       => /\ rq[s].status = STATUS_COMPLETED
          /\ rq'[s].pc = "done" /\ rq'[s].resp = "NoSuchUpload"
          /\ parts' = parts /\ pbytes' = pbytes /\ obj' = obj /\ objBytes' = objBytes

\* C15 (as stated): a completion or abort that finds the Upload Completed
\* deletes the Upload row and answers NoSuchUpload, without changing a Part
\* row, part bytes or the object.
C15_CompletedIsPurged ==
    [][\A s \in Slots :
         /\ FindsCompleted(s)
         /\ (rq[s].pc = "del_completed" /\ rq'[s] # rq[s]) => upStatus' = NoUpload]_vars

\* C15 (amended): a completion or abort that finds the Upload Completed tries
\* once to delete the Upload row and answers NoSuchUpload whether or not the
\* deletion succeeded (the row is gone unless the deletion failed), without
\* changing a Part row, part bytes or the object.
C15_CompletedIsPurgedOnce ==
    [][\A s \in Slots :
         /\ FindsCompleted(s)
         /\ (rq[s].pc = "del_completed" /\ rq'[s] # rq[s])
            => upStatus' = (IF nfail' = nfail THEN NoUpload ELSE upStatus)]_vars

C15_Witness ==
    \E s \in Slots :
        /\ rq[s].kind \in {"complete", "abort"} /\ rq[s].pc = "done"
        /\ rq[s].at = "completed" /\ rq[s].resp = "NoSuchUpload"
        /\ upStatus = NoUpload

\* C16: no step of an abort changes or deletes a Part row that carries a
\* nonzero obj_id.
C16_AbortSparesComposed ==
    [][\A s \in Slots :
         (rq[s].kind = "abort" /\ Serving(s) /\ rq'[s] # rq[s])
         => \A n \in PartNums :
              (parts[n] # NoRow /\ parts[n].obj_id # 0) => parts'[n] = parts[n]]_vars

\* the abort of worker s does the last round of its first pass in this step
EndsFirstPass(s) ==
    /\ rq[s].kind = "abort" /\ rq[s].pc = "clear" /\ rq[s].pass = 1
    /\ rq[s].k = Len(rq[s].plist) /\ rq'[s] # rq[s]

\* the listed parts whose row is still stored after the step, and those whose
\* bytes are
RowsLeft(l) == {i \in 1..Len(l) : parts'[l[i].num] # NoRow /\ parts'[l[i].num].id = l[i].row.id}

BytesLeft(l) == {i \in 1..Len(l) : pbytes'[l[i].num] # NoData}

EndsSecondPass(s) ==
    /\ rq[s].kind = "abort" /\ rq[s].pc = "clear" /\ rq[s].pass = 2
    /\ rq[s].k = Len(rq[s].plist) /\ rq'[s] # rq[s]

\* C18: an abort whose first pass failed on some but not more than half of
\* the parts goes over the failed ones once more; if a row of them is still
\* stored after that, it ends with InternalError and the Upload row as it
\* was; if the second pass met no failure, the Upload row is deleted and 204
\* (NoContent) is the response.
C18_MinorityRetriedOnce ==
    [][\A s \in Slots :
         /\ (EndsSecondPass(s) /\ RowsLeft(rq[s].plist) # {})
            => (rq'[s].pc = "done" /\ rq'[s].resp = "InternalError" /\ upStatus' = upStatus)
         /\ (EndsSecondPass(s) /\ Len(rq[s].failed) = 0 /\ nfail' = nfail)
            => rq'[s].pc = "delete"
         /\ (rq[s].kind = "abort" /\ rq[s].pc = "delete" /\ rq[s].pass = 2
             /\ rq'[s] # rq[s] /\ nfail' = nfail)
            => (upStatus' = NoUpload /\ rq'[s].resp = "NoContent")]_vars

\* C19: an abort of an upload in Uploading that lists no Part row goes
\* straight on to delete the Upload row, and unless that deletion fails the
\* row is deleted and the response is 204 (NoContent).
C19_AbortWithoutParts ==
    [][\A s \in Slots :
         /\ (rq[s].kind = "abort" /\ rq[s].pc = "query" /\ rq'[s] # rq[s]
             /\ PartsOfUploadNotComposed = <<>>)
            => (rq'[s].pc = "delete" /\ rq'[s].at = "noparts" /\ Now' = Now)
         /\ (rq[s].kind = "abort" /\ rq[s].pc = "delete" /\ rq[s].at = "noparts"
             /\ rq'[s] # rq[s] /\ nfail' = nfail)
            => (upStatus' = NoUpload /\ rq'[s].pc = "done" /\ rq'[s].resp = "NoContent")]_vars

\* after an earlier request met a failure, a second request, an abort that
\* listed no part, has deleted the Upload row and answered 204
C19_Witness ==
    \E s \in Slots :
        /\ rq[s].kind = "abort" /\ rq[s].pc = "done" /\ rq[s].at = "noparts"
        /\ rq[s].resp = "NoContent"
        /\ nreq = 2 /\ nfail = 1 /\ upStatus = NoUpload
        /\ \A t \in Slots \ {s} : rq[t].kind = "none"
        /\ \A n \in PartNums : parts[n] = NoRow /\ pbytes[n] = NoData

\* a row that is not of this bucket: the name or the id differs
Stale(row, bucket) == row.bucket_id # bucket.id \/ row.bucket_name # bucket.name

\* the row the lookup looks at in this step
Visited == lk.todo \ lk'.todo

\* the lookup returns no row of another bucket, and deletes no row of this
\* bucket and no row that it did not find
LookupSparesValid ==
    /\ (lk'.pc = "done" /\ lk'.ret # NoUpload)
       => (uploads'[lk'.ret] # NoUploadRow /\ ~Stale(uploads'[lk'.ret], lk.bucket))
    /\ \A u \in UploadIds :
         (u \notin Visited \/ ~Stale(uploads[u], lk.bucket)) => uploads'[u] = uploads[u]

\* C20 (as stated): the lookup of the upload of (bucket, key) returns no row
\* whose (bucket_id, bucket_name) differs from the live bucket's, deletes
\* every such row it finds, and deletes no matching row.
C20_LookupPurgesStale ==
    [][(lk.pc = "iter" /\ lk' # lk)
       => /\ LookupSparesValid
          /\ \A u \in Visited : Stale(uploads[u], lk.bucket) => uploads'[u] = NoUploadRow]_vars

\* C20 (amended): the lookup returns no row whose (bucket_id, bucket_name)
\* differs from the live bucket's and deletes no matching row; for every
\* stale row it finds it attempts one deletion, which deletes the row unless
\* it fails, and a failure is passed over and leaves the row.
C20_LookupPurgesStaleOnce ==
    [][(lk.pc = "iter" /\ lk' # lk)
       => /\ LookupSparesValid
          /\ \A u \in Visited :
               Stale(uploads[u], lk.bucket)
               => uploads'[u] = (IF nfail' = nfail THEN NoUploadRow ELSE uploads[u])]_vars

\* a lookup found a stale row and a matching one, deleted the first and
\* returned the second
C20_Witness ==
    /\ lk.pc = "done" /\ lk.ret # NoUpload
    /\ uploads[lk.ret] = lk.qs[lk.ret]
    /\ \E u \in UploadIds :
         /\ lk.qs[u] # NoUploadRow
         /\ lk.qs[u].obj_key = lk.obj_path /\ lk.qs[u].bucket_name = lk.bucket.name
         /\ Stale(lk.qs[u], lk.bucket)
         /\ uploads[u] = NoUploadRow

\* C21: while the Upload is Composing, a step that changes its status is a
\* step of a request that completes it (one that set it to Composing); an
\* initiate, a part upload or an abort leaves the status as it is.
C21_ComposingOnlyLeftByCompleter ==
    [][(upStatus = STATUS_COMPOSING /\ upStatus' # upStatus)
       => \E s \in Slots : rq[s].kind = "complete" /\ rq[s].gated /\ rq'[s] # rq[s]]_vars

\* C22: at every moment there is at most one Upload row for a live bucket and
\* an object key, also while initiate requests for the same key are served
\* at the same time.
C22_OneUploadPerKey ==
    \A bucket \in LiveBuckets, obj_key \in Keys : Cardinality(UploadsOf(bucket, obj_key)) <= 1

\* C23: an initiate that finds the Upload of its key Completed deletes that
\* row and answers with an Upload it created.
C23_InitiatePurgesCompleted ==
    [][\A s \in Slots :
         (rq[s].kind = "initiate" /\ rq[s].pc = "bind" /\ rq[s].status = STATUS_COMPLETED
          /\ rq'[s] # rq[s])
         => (upStatus' = NoUpload /\ rq'[s].resp = "OK")]_vars

Validates(s) == rq[s].kind = "complete" /\ rq[s].pc = "validate" /\ rq'[s] # rq[s]

\* what the validation of worker s ends with: "ok" or the error raised
ValidationOf(s) == IF rq'[s].pc = "compose" THEN "ok" ELSE rq'[s].err

\* the part numbers of the manifest with a stored row below the minimum size
\* that are not the last number of the manifest
SmallBeforeLast(m) ==
    {n \in PartNums : /\ InSeq(n, Numbers(m)) /\ n # m[Len(m)].PartNumber
                      /\ parts[n] # NoRow /\ parts[n].size < MULTIPART_UPLOAD_MIN_SIZE}

\* every entry of the manifest names a stored part with its checksum
AllMatch(m) ==
    \A i \in 1..Len(m) : /\ parts[m[i].PartNumber] # NoRow
                         /\ parts[m[i].PartNumber].part_md5 = m[i].ETag

\* C25 (as stated): the validation ends with EntityTooSmall if and only if a
\* part of the manifest that is not its last one is stored with a size below
\* the minimum.
C25_SmallExceptLast ==
    [][\A s \in Slots :
         Validates(s)
         => (ValidationOf(s) = "EntityTooSmall" <=> SmallBeforeLast(rq[s].manifest) # {})]_vars

\* C25 (amended): EntityTooSmall is raised only for a part of the manifest
\* below the minimum size that is not its last one; such a part always has
\* the manifest rejected, with EntityTooSmall when every entry names a stored
\* part with its checksum, and with EntityTooSmall or InvalidPart (whichever
\* offending row the store returns first) otherwise.
C25_SmallExceptLastFirstError ==
    [][\A s \in Slots :
         Validates(s)
         => /\ ValidationOf(s) = "EntityTooSmall" => SmallBeforeLast(rq[s].manifest) # {}
            /\ SmallBeforeLast(rq[s].manifest) # {}
               => /\ ValidationOf(s) \in {"EntityTooSmall", "InvalidPart"}
                  /\ AllMatch(rq[s].manifest) => ValidationOf(s) = "EntityTooSmall"]_vars

\* a manifest of two parts was accepted whose last part is below the minimum
\* size
C25_Witness ==
    \E s \in Slots :
        /\ rq[s].kind = "complete" /\ rq[s].pc = "compose" /\ rq[s].k = 1 /\ rq[s].c = 1
        /\ Len(rq[s].manifest) = 2
        /\ rq[s].used[rq[s].manifest[2].PartNumber].size < MULTIPART_UPLOAD_MIN_SIZE
        /\ rq[s].used[rq[s].manifest[1].PartNumber].size >= MULTIPART_UPLOAD_MIN_SIZE

\* C26: what a completion takes from the stored parts and a valid manifest
\* (the rows it composes, hence the bytes and the offsets, and the composite
\* ETag) is the same for every order in which the store returns the rows.
C26_ComposeDeterministic ==
    \A s \in Slots :
        At(s, "complete", "validate")
        => \A p, q \in StoreOrders :
             LET v == get_upload_parts_and_validate(RowsIn(p), rq[s].manifest)
                 w == get_upload_parts_and_validate(RowsIn(q), rq[s].manifest)
             IN  (v.err = "ok" /\ w.err = "ok") => (v.used = w.used /\ v.etag = w.etag)

\* C27: the Upload becomes Completed only in the step of a completion that
\* composed the object and finalized its metadata and whose deletion of the
\* Upload row failed; once Completed, the Upload keeps that status until it
\* is deleted.
C27_CompletedIsFinal ==
    [][/\ (upStatus' = STATUS_COMPLETED /\ upStatus # STATUS_COMPLETED)
          => \E s \in Slots : /\ rq[s].kind = "complete" /\ rq[s].pc = "del_upload"
                              /\ rq[s].finalized /\ rq'[s] # rq[s] /\ nfail' > nfail
       /\ upStatus = STATUS_COMPLETED => upStatus' \in {STATUS_COMPLETED, NoUpload}]_vars

\* C28: a part upload that arrives while the Upload is Completed is answered
\* NoSuchUpload at once, and no step of it changes a Part row or part bytes.
C28_UploadToCompletedRejected ==
    [][\A s \in Slots :
         /\ (~Serving(s) /\ rq'[s] # rq[s] /\ rq'[s].kind = "upload"
             /\ upStatus = STATUS_COMPLETED)
            => (rq'[s].pc = "done" /\ rq'[s].resp = "NoSuchUpload")
         /\ (Serving(s) /\ rq[s].kind = "upload" /\ rq[s].status = STATUS_COMPLETED
             /\ rq'[s] # rq[s])
            => (parts' = parts /\ pbytes' = pbytes)]_vars

\* C29: an Upload is Composing only while a request that set it so is still
\* served: when the completing request has ended, at whichever step it
\* failed, the Upload has left Composing.
C29_NoComposingLeftBehind ==
    upStatus = STATUS_COMPOSING
    => \E s \in Slots : Serving(s) /\ rq[s].kind = "complete" /\ rq[s].gated

\* C30: when an abort answers 204 (NoContent), no Part row of the upload is
\* stored any more, whatever requests the upload went through before.
C30_AbortLeavesNoPart ==
    [][\A s \in Slots :
         (Ends(s) /\ rq'[s].kind = "abort" /\ rq'[s].resp = "NoContent")
         => \A n \in PartNums : parts'[n] = NoRow]_vars

\* C31: when an abort answers 204 (NoContent), no bytes lie under the key of
\* a part that the abort listed and whose row is deleted: a part whose bytes
\* could not be deleted, also at the second attempt, keeps the abort from
\* answering 204.
C31_AbortLeavesNoBytes ==
    [][\A s \in Slots :
         (Ends(s) /\ rq'[s].kind = "abort" /\ rq'[s].resp = "NoContent")
         => \A i \in 1..Len(rq[s].plist) :
              parts'[rq[s].plist[i].num] = NoRow
              => pbytes'[rq[s].plist[i].num] = NoData]_vars

\* no request is being served
Quiet == \A s \in Slots : ~Serving(s)

\* C32: whenever the Upload is not Composing and no request is under way,
\* every Part row with obj_id = 0 describes bytes that lie under the key of
\* its part, with the size and the checksum the row records.
C32_RowsDescribeBytes ==
    (upStatus # STATUS_COMPOSING /\ Quiet)
    => \A n \in PartNums :
         (parts[n] # NoRow /\ parts[n].obj_id = 0)
         => /\ pbytes[n] # NoData
            /\ DataSize(pbytes[n]) = parts[n].size
            /\ DataMd5(pbytes[n]) = parts[n].part_md5

\* C33: no two Part rows have the same nonzero object id and the same part
\* number, whatever uploads were completed before, so a read of part n of
\* an object finds at most one row.
C33_OnePartRowPerObjectPart ==
    \A p, q \in otab :
        (p.obj_id # 0 /\ p.obj_id = q.obj_id /\ p.part_num = q.part_num) => p = q

\* C34: the abort of MultipartUploadHandler and the abort of ObjViewSet,
\* started on the same Upload, Part rows and part bytes and met by the same
\* deletion failures, answer alike and leave the same Upload row, Part rows
\* and part bytes.
C34_AbortsEquivalent ==
    (job.pc = "pair" /\ job.view.pc = "done" /\ job.handler.pc = "done")
    => /\ job.view.resp = job.handler.resp
       /\ job.view.up = job.handler.up
       /\ job.view.rows = job.handler.rows
       /\ job.view.keys = job.handler.keys

\* C35: a step of the reclamation deletes no Part row with a nonzero obj_id,
\* and neither a Part row nor part bytes of an Upload that is Composing.
C35_ReclaimFollowsAbort ==
    [][\A p \in otab :
         /\ p.obj_id # 0 => p \in otab'
         /\ utab[p.upload_id].status = STATUS_COMPOSING
            => /\ p \in otab'
               /\ <<p.upload_id, p.part_num>> \in okeys
                  => <<p.upload_id, p.part_num>> \in okeys']_vars

\* C36: the reclamation run over all expired uploads comes to its end, also
\* when the clean-up of some upload fails.
C36_ReclaimTerminates == <>(job.pc = "done")

====
